---- MODULE Spec2Model ----
(***************************************************************************)
(* Model of run.py ("Image Smash Arena"): image loading, the safe-spawn    *)
(* loop, and the main loop (poll events, move, check_collisions, cull,     *)
(* draw).  Coordinates and velocities are floats in the program; here they *)
(* are fixed-point integers counting 1/SCALE of a pixel.  SCALE is a power *)
(* of two, so every value of the model is a binary fraction that the       *)
(* program's float arithmetic adds, subtracts and squares exactly.  The    *)
(* radius BASE_SIZE / sqrt(total_images) is irrational for some image      *)
(* counts; it is never stored: every comparison against it is done on      *)
(* squares.                                                                *)
(***************************************************************************)
EXTENDS Integers, Sequences, FiniteSets, TLC

\* ---------------- SETTINGS (run.py lines 10-13) ----------------
WIDTH == 1000
HEIGHT == 700
BASE_SIZE == 150
POWER_PER_OBJECT == 7
\* the attempt budget of the spawn loop (line 136)
MAX_ATTEMPTS == 500

\* resolution of the modelled floats: values are multiples of 1/SCALE pixel
SCALE == 8

\* bound on the number of main-loop iterations explored by Spec
MaxTicks == 8

VARIABLES
    pc,            \* position of the script: load, spawn, poll, move, collide, cull, draw, done, error
    total_images,  \* len(image_surfaces)
    GRID_SIZE,     \* diameter = int(radius * 2), in pixels
    particles,     \* the module-level list of Particle objects
    img,           \* number of images the spawn for-loop has finished with
    attempts,      \* attempts of the spawn while-loop for the current image
    running,       \* the main loop's flag
    ticks,         \* main-loop iterations started (saturates at MaxTicks)
    resolved,      \* pairs resolved by the last check_collisions call, in order
    start,         \* the particle list the main loop started with
    frame          \* what the last iteration drew: the bodies and the "Alive" counter

vars == <<pc, total_images, GRID_SIZE, particles, img, attempts, running, ticks, resolved, start,
          frame>>

\* ---------------- arithmetic helpers ----------------
Abs(n) == IF n < 0 THEN -n ELSE n

Px(a) == a * SCALE

\* floor of the square root
ISqrt(n) == CHOOSE k \in 0..(2 * BASE_SIZE) : k * k <= n /\ (k + 1) * (k + 1) > n

\* diameter = int(radius * 2) with radius = BASE_SIZE / math.sqrt(total_images)
Diameter(n) == ISqrt((4 * BASE_SIZE * BASE_SIZE) \div n)

\* radius * radius = BASE_SIZE^2 / n in fixed point is RadiusSq / n; the comparisons
\* below are d*d*n <= RadiusSq and the like, divided through by n so that the
\* products stay small: for integers a*n <= k iff a <= k \div n
RadiusSq == BASE_SIZE * BASE_SIZE * SCALE * SCALE

\* d <= radius, for a fixed-point length d and n images
LeRadius(d, n) == d <= 0 \/ d * d <= RadiusSq \div n

\* d >= radius
GeRadius(d, n) == d > 0 /\ d * d > (RadiusSq - 1) \div n

\* distance_sq < min_dist * min_dist with min_dist = radius + radius
WithinMinDist(dx, dy, n) == dx * dx + dy * dy <= (4 * RadiusSq - 1) \div n

\* ---------------- PARTICLE CLASS ----------------
Particle(i, x, y, v) ==
    [id |-> i, x |-> x, y |-> y, vx |-> v[1], vy |-> v[2], power |-> POWER_PER_OBJECT]

move_BounceFirst(p, n) ==
    [p EXCEPT !.x = p.x + p.vx,
              !.y = p.y + p.vy,
              !.vx = IF LeRadius(p.x, n) \/ LeRadius(Px(WIDTH) - p.x, n) THEN -p.vx ELSE p.vx,
              !.vy = IF LeRadius(p.y, n) \/ LeRadius(Px(HEIGHT) - p.y, n) THEN -p.vy ELSE p.vy]

\* Particle.move: integrate, then flip a velocity component at a wall
move(p, n) ==
    LET x1 == p.x + p.vx
        y1 == p.y + p.vy
    IN [p EXCEPT !.x = x1,
                 !.y = y1,
                 !.vx = IF LeRadius(x1, n) \/ LeRadius(Px(WIDTH) - x1, n) THEN -p.vx ELSE p.vx,
                 !.vy = IF LeRadius(y1, n) \/ LeRadius(Px(HEIGHT) - y1, n) THEN -p.vy ELSE p.vy]

\* ---------------- SAFE SPAWN ----------------
is_overlapping_OneRadius(ps, new_x, new_y, n) ==
    \E i \in 1..Len(ps) :
        LET dx == new_x - ps[i].x
            dy == new_y - ps[i].y
        IN dx * dx + dy * dy <= (RadiusSq - 1) \div n

\* lines 121-129
is_overlapping(ps, new_x, new_y, n) ==
    \E i \in 1..Len(ps) : WithinMinDist(new_x - ps[i].x, new_y - ps[i].y, n)

Placement_AtLastCandidate(ps, s, att, n) ==
    IF ~is_overlapping(ps, s[1], s[2], n) \/ att + 1 >= MAX_ATTEMPTS
    THEN Append(ps, Particle(Len(ps) + 1, s[1], s[2], <<s[3], s[4]>>))
    ELSE ps

\* lines 140-142: the candidate is appended only if it overlaps no placed body; s is
\* the draw <<new_x, new_y, vx, vy>> and att the attempts made before it
Placement(ps, s, att, n) ==
    IF ~is_overlapping(ps, s[1], s[2], n)
    THEN Append(ps, Particle(Len(ps) + 1, s[1], s[2], <<s[3], s[4]>>))
    ELSE ps

\* random.uniform(radius, WIDTH - radius), random.uniform(radius, HEIGHT - radius)
InSpawnRange(c, n) ==
    /\ GeRadius(c[1], n) /\ GeRadius(Px(WIDTH) - c[1], n)
    /\ GeRadius(c[2], n) /\ GeRadius(Px(HEIGHT) - c[2], n)

\* ---------------- SPATIAL GRID ----------------
CellOf(p, g) == <<p.x \div (SCALE * g), p.y \div (SCALE * g)>>

\* the keys of the grid dict in insertion order
RECURSIVE GridKeys(_, _, _, _)
GridKeys(ps, g, i, acc) ==
    IF i > Len(ps) THEN acc
    ELSE LET c == CellOf(ps[i], g)
         IN GridKeys(ps, g, i + 1,
                     IF \E k \in 1..Len(acc) : acc[k] = c THEN acc ELSE Append(acc, c))

\* grid.get(cell, []): the indices of the cell's particles, in list order
RECURSIVE GridGet(_, _, _, _)
GridGet(ps, g, c, i) ==
    IF i > Len(ps) THEN <<>>
    ELSE (IF CellOf(ps[i], g) = c THEN <<i>> ELSE <<>>) \o GridGet(ps, g, c, i + 1)

build_spatial_grid(ps, g) ==
    [keys |-> GridKeys(ps, g, 1, <<>>),
     cells |-> [c \in {CellOf(ps[i], g) : i \in 1..Len(ps)} |-> GridGet(ps, g, c, 1)]]

GridLookup(grid, c) == IF c \in DOMAIN grid.cells THEN grid.cells[c] ELSE <<>>

Offsets == <<-1, 0, 1>>

\* neighbors: the 3x3 neighbourhood, dx outer and dy inner
Neighbors(grid, c) ==
    LET col(dx) == GridLookup(grid, <<c[1] + Offsets[dx], c[2] + Offsets[1]>>)
                   \o GridLookup(grid, <<c[1] + Offsets[dx], c[2] + Offsets[2]>>)
                   \o GridLookup(grid, <<c[1] + Offsets[dx], c[2] + Offsets[3]>>)
    IN col(1) \o col(2) \o col(3)

\* the (p1, p2) index pairs in the order the nested loops visit them
RECURSIVE PairsOfCell(_, _, _)
PairsOfCell(cell_particles, neighbors, k) ==
    IF k > Len(cell_particles) THEN <<>>
    ELSE [j \in 1..Len(neighbors) |-> <<cell_particles[k], neighbors[j]>>]
         \o PairsOfCell(cell_particles, neighbors, k + 1)

RECURSIVE VisitOrder(_, _)
VisitOrder(grid, k) ==
    IF k > Len(grid.keys) THEN <<>>
    ELSE PairsOfCell(grid.cells[grid.keys[k]], Neighbors(grid, grid.keys[k]), 1)
         \o VisitOrder(grid, k + 1)

\* pair = tuple(sorted((id(p1), id(p2))))
PairKey(a, b) == IF a.id <= b.id THEN <<a.id, b.id>> ELSE <<b.id, a.id>>

AlreadyChecked_Never(pair, checked_pairs) == FALSE

\* if pair in checked_pairs: continue
AlreadyChecked(pair, checked_pairs) == pair \in checked_pairs

\* the narrow-phase test of one pair (lines 179-184)
Colliding(a, b, n) == WithinMinDist(a.x - b.x, a.y - b.y, n)

Decrement_NoFloor(power) == power - 1

\* if power > 0: power -= 1
Decrement(power) == IF power > 0 THEN power - 1 ELSE power

Resolve_OneSided(ps, i, j) ==
    [ps EXCEPT ![i] = [ps[i] EXCEPT !.vx = ps[j].vx, !.vy = ps[j].vy,
                                    !.power = Decrement(ps[i].power)],
               ![j] = [ps[j] EXCEPT !.vx = ps[i].vx, !.vy = ps[i].vy]]

Resolve_NoTemp(ps, i, j) ==
    [ps EXCEPT ![i] = [ps[i] EXCEPT !.vx = ps[j].vx, !.vy = ps[j].vy,
                                    !.power = Decrement(ps[i].power)],
               ![j] = [ps[j] EXCEPT !.power = Decrement(ps[j].power)]]

Resolve_Impulse(ps, i, j) ==
    [ps EXCEPT ![i] = [ps[i] EXCEPT !.vx = ps[j].vx - ps[i].vx, !.vy = ps[j].vy - ps[i].vy,
                                    !.power = Decrement(ps[i].power)],
               ![j] = [ps[j] EXCEPT !.vx = ps[i].vx - ps[j].vx, !.vy = ps[i].vy - ps[j].vy,
                                    !.power = Decrement(ps[j].power)]]

Resolve_NoSwap(ps, i, j) ==
    [ps EXCEPT ![i] = [ps[i] EXCEPT !.power = Decrement(ps[i].power)],
               ![j] = [ps[j] EXCEPT !.power = Decrement(ps[j].power)]]

\* the resolution of one colliding pair (lines 186-192)
Resolve(ps, i, j) ==
    [ps EXCEPT ![i] = [ps[i] EXCEPT !.vx = ps[j].vx, !.vy = ps[j].vy,
                                    !.power = Decrement(ps[i].power)],
               ![j] = [ps[j] EXCEPT !.vx = ps[i].vx, !.vy = ps[i].vy,
                                    !.power = Decrement(ps[j].power)]]

Visit_SkipDead(st, i, j, n) ==
    LET pair == PairKey(st.ps[i], st.ps[j])
    IN IF i = j THEN st
       ELSE IF AlreadyChecked(pair, st.checked_pairs) THEN st
       ELSE IF st.ps[i].power = 0 \/ st.ps[j].power = 0
            THEN [st EXCEPT !.checked_pairs = st.checked_pairs \cup {pair}]
       ELSE IF Colliding(st.ps[i], st.ps[j], n)
            THEN [ps |-> Resolve(st.ps, i, j),
                  checked_pairs |-> st.checked_pairs \cup {pair},
                  resolved |-> Append(st.resolved, pair)]
            ELSE [st EXCEPT !.checked_pairs = st.checked_pairs \cup {pair}]

\* the body of the two inner loops for p1 = ps[i], p2 = ps[j] (lines 171-192);
\* st holds the particle list, checked_pairs and the log of resolved pairs
Visit(st, i, j, n) ==
    LET pair == PairKey(st.ps[i], st.ps[j])
    IN IF i = j THEN st
       ELSE IF AlreadyChecked(pair, st.checked_pairs) THEN st
       ELSE IF Colliding(st.ps[i], st.ps[j], n)
            THEN [ps |-> Resolve(st.ps, i, j),
                  checked_pairs |-> st.checked_pairs \cup {pair},
                  resolved |-> Append(st.resolved, pair)]
            ELSE [st EXCEPT !.checked_pairs = st.checked_pairs \cup {pair}]

\* the visits in order from position k on (each intermediate state is bound as a
\* value before the next visit is evaluated)
RECURSIVE Pass(_, _, _, _)
Pass(st, order, k, n) ==
    IF k > Len(order) THEN st
    ELSE CHOOSE out \in { Pass(v, order, k + 1, n) :
                            v \in { Visit(st, order[k][1], order[k][2], n) } } : TRUE

\* lines 157-192
check_collisions(ps, g, n) ==
    CHOOSE out \in { Pass([ps |-> ps, checked_pairs |-> {}, resolved |-> <<>>], order, 1, n) :
                       order \in { VisitOrder(grid, 1) :
                                     grid \in { build_spatial_grid(ps, g) } } } : TRUE

Alive_OrZero(p) == p.power >= 0

\* particles = [p for p in particles if p.power > 0]
Alive(p) == p.power > 0

Cull(ps) == SelectSeq(ps, Alive)

TooFew_Strict(ps) == Len(ps) < 1

\* if len(particles) <= 1: running = False
TooFew(ps) == Len(ps) <= 1

\* what Particle.draw and the counter text show
Snapshot(ps) ==
    [bodies |-> [i \in 1..Len(ps) |-> [id |-> ps[i].id, x |-> ps[i].x, y |-> ps[i].y,
                                       power |-> ps[i].power]],
     alive |-> Len(ps)]

NoFrame == [bodies |-> <<>>, alive |-> 0]

\* ---------------- inputs ----------------
\* numbers of image files found in the folder
ImageCounts == {0, 1, 2, 4}

\* positions the spawn sampling may return, <<x, y>> in 1/SCALE pixel
Candidates ==
    { <<Px(209) + 7, Px(300)>>, <<Px(426), Px(300)>>,
      <<Px(107), Px(300)>>, <<Px(316), Px(340)>> }

\* velocities Particle.__init__ may sample
Velocities == { <<Px(2), 0>>, <<-Px(2), 0>>, <<-Px(2), Px(2)>>, <<-Px(2), -Px(2)>> }

\* a tight cluster of three bodies of radius 75: position and velocity drawn together
ClusterSamples ==
    { <<Px(300), Px(300), Px(2), 0>>, <<Px(300), Px(300), 0, Px(2)>>,
      <<Px(450), Px(300), 0, Px(2)>>,
      <<Px(375), Px(431), -Px(2), 0>>, <<Px(375), Px(431), Px(2), -Px(2)>> }

\* the draws <<new_x, new_y, vx, vy>> of random.uniform explored for n images
Samples(n) ==
    IF n = 4 THEN ClusterSamples
    ELSE { <<c[1], c[2], v[1], v[2]>> : c \in Candidates, v \in Velocities }

\* outcomes of polling the event queue: a QUIT event was seen or not
QuitInputs == {TRUE, FALSE}

\* ---------------- the script ----------------
Init ==
    /\ pc = "load"
    /\ total_images = 0
    /\ GRID_SIZE = 0
    /\ particles = <<>>
    /\ img = 0
    /\ attempts = 0
    /\ running = FALSE
    /\ ticks = 0
    /\ resolved = <<>>
    /\ start = <<>>
    /\ frame = NoFrame

\* lines 36-53: load the images; no image raises, otherwise radius and GRID_SIZE are set
LoadImages(counts) ==
    /\ pc = "load"
    /\ \E n \in counts :
          /\ total_images' = n
          /\ IF n = 0
             THEN /\ pc' = "error"
                  /\ GRID_SIZE' = GRID_SIZE
             ELSE /\ pc' = "spawn"
                  /\ GRID_SIZE' = Diameter(n)
    /\ UNCHANGED <<particles, img, attempts, running, ticks, resolved, start, frame>>

\* lines 136-144: one iteration of the while loop of the current image; leaving the
\* while loop moves the for loop to the next image
SpawnAttempt ==
    /\ pc = "spawn"
    /\ img < total_images
    /\ \E s \in Samples(total_images) :
          /\ InSpawnRange(s, total_images)
          /\ LET ok == ~is_overlapping(particles, s[1], s[2], total_images)
                 leave == ok \/ attempts + 1 >= MAX_ATTEMPTS
             IN /\ particles' = Placement(particles, s, attempts, total_images)
                /\ attempts' = IF leave THEN 0 ELSE attempts + 1
                /\ img' = IF leave THEN img + 1 ELSE img
    /\ UNCHANGED <<pc, total_images, GRID_SIZE, running, ticks, resolved, start, frame>>

\* line 196: running = True
StartLoop ==
    /\ pc = "spawn"
    /\ img = total_images
    /\ running' = TRUE
    /\ start' = particles
    /\ pc' = "poll"
    /\ UNCHANGED <<total_images, GRID_SIZE, particles, img, attempts, ticks, resolved, frame>>

PollEvents_QuitBreaks(quits, capped) ==
    /\ pc = "poll"
    /\ capped => ticks < MaxTicks
    /\ ticks' = IF ticks < MaxTicks THEN ticks + 1 ELSE ticks
    /\ \E quit \in quits : /\ running' = IF quit THEN FALSE ELSE running
                           /\ pc' = IF quit THEN "done" ELSE "move"
    /\ UNCHANGED <<total_images, GRID_SIZE, particles, img, attempts, resolved, start, frame>>

\* lines 197-203: an iteration starts; the event queue is polled
PollEvents(quits, capped) ==
    /\ pc = "poll"
    /\ capped => ticks < MaxTicks
    /\ ticks' = IF ticks < MaxTicks THEN ticks + 1 ELSE ticks
    /\ \E quit \in quits : running' = IF quit THEN FALSE ELSE running
    /\ pc' = "move"
    /\ UNCHANGED <<total_images, GRID_SIZE, particles, img, attempts, resolved, start, frame>>

\* lines 205-206
MoveAll ==
    /\ pc = "move"
    /\ particles' = [i \in 1..Len(particles) |-> move(particles[i], total_images)]
    /\ pc' = "collide"
    /\ UNCHANGED <<total_images, GRID_SIZE, img, attempts, running, ticks, resolved, start, frame>>

\* line 208; with GRID_SIZE = 0 the floor division of line 151 raises
\* ZeroDivisionError for the first particle and the script dies
Collide ==
    /\ pc = "collide"
    /\ IF GRID_SIZE = 0 /\ Len(particles) > 0
       THEN /\ pc' = "error"
            /\ UNCHANGED <<particles, resolved>>
       ELSE /\ LET out == check_collisions(particles, GRID_SIZE, total_images)
               IN /\ particles' = out.ps
                  /\ resolved' = out.resolved
            /\ pc' = "cull"
    /\ UNCHANGED <<total_images, GRID_SIZE, img, attempts, running, ticks, start, frame>>

CullDead_DrawFirst ==
    /\ pc = "cull"
    /\ frame' = Snapshot(particles)
    /\ particles' = Cull(particles)
    /\ running' = IF TooFew(Cull(particles)) THEN FALSE ELSE running
    /\ pc' = IF running' THEN "poll" ELSE "done"
    /\ UNCHANGED <<total_images, GRID_SIZE, img, attempts, ticks, resolved, start>>

\* lines 210-213
CullDead ==
    /\ pc = "cull"
    /\ particles' = Cull(particles)
    /\ running' = IF TooFew(Cull(particles)) THEN FALSE ELSE running
    /\ pc' = "draw"
    /\ UNCHANGED <<total_images, GRID_SIZE, img, attempts, ticks, resolved, start, frame>>

\* lines 215-229, then the loop test of line 197
DrawFrame ==
    /\ pc = "draw"
    /\ frame' = Snapshot(particles)
    /\ pc' = IF running THEN "poll" ELSE "done"
    /\ UNCHANGED <<total_images, GRID_SIZE, particles, img, attempts, running, ticks, resolved,
                   start>>

Next ==
    \/ LoadImages(ImageCounts)
    \/ SpawnAttempt
    \/ StartLoop
    \/ PollEvents(QuitInputs, TRUE)
    \/ MoveAll
    \/ Collide
    \/ CullDead
    \/ DrawFrame

Spec == Init /\ [][Next]_vars

\* The main loop without a QUIT event and without a bound on its iterations, entered
\* with arenas the spawn loop can produce: a single body, two bodies moving up and
\* down in the same lane or in lanes 300 pixels apart, four bodies started exactly on
\* a wall line (they flip there every tick), and the tight cluster of three.  The loop
\* is the only thread of the script, so an iteration that can start does start.
LiveSamples(n) ==
    IF n = 1 THEN { <<Px(150), Px(300), -Px(1), 0>>, <<Px(400), Px(300), 0, 0>> }
    ELSE IF n = 2 THEN { <<Px(300), Px(110), 0, Px(2)>>, <<Px(600), Px(110), 0, Px(2)>>,
                         <<Px(300), Px(590), 0, Px(2)>> }
    ELSE { <<Px(75), Px(200), -Px(1), 0>>, <<Px(75), Px(500), -Px(1), 0>>,
           <<Px(925), Px(200), Px(1), 0>>, <<Px(925), Px(500), Px(1), 0>> }

Placed(draws) ==
    [i \in 1..Len(draws) |-> Particle(i, draws[i][1], draws[i][2], <<draws[i][3], draws[i][4]>>)]

ClusterStarts ==
    { << <<Px(300), Px(300), Px(2), 0>>, <<Px(450), Px(300), 0, Px(2)>>,
         <<Px(375), Px(431), -Px(2), 0>> >>,
      << <<Px(300), Px(300), 0, Px(2)>>, <<Px(450), Px(300), 0, Px(2)>>,
         <<Px(375), Px(431), Px(2), -Px(2)>> >>,
      << <<Px(375), Px(431), Px(2), -Px(2)>>, <<Px(300), Px(300), Px(2), 0>>,
         <<Px(450), Px(300), 0, Px(2)>> >> }

\* what the spawn loop guarantees of the list it leaves
SpawnLegal(ps, n) ==
    /\ \A i \in 1..Len(ps) : InSpawnRange(<<ps[i].x, ps[i].y>>, n)
    /\ \A i, j \in 1..Len(ps) : i # j => ~WithinMinDist(ps[i].x - ps[j].x, ps[i].y - ps[j].y, n)

LiveStarts(n) ==
    { ps \in { Placed(d) : d \in [1..n -> LiveSamples(n)] \cup
                                 (IF n = 4 THEN ClusterStarts ELSE {}) } :
        SpawnLegal(ps, n) }

LiveInit ==
    /\ pc = "poll"
    /\ total_images \in {1, 2, 4}
    /\ GRID_SIZE = Diameter(total_images)
    /\ particles \in LiveStarts(total_images)
    /\ start = particles
    /\ img = total_images
    /\ attempts = 0
    /\ running = TRUE
    /\ ticks = 0
    /\ resolved = <<>>
    /\ frame = NoFrame

LiveNext ==
    \/ PollEvents({FALSE}, FALSE)
    \/ MoveAll
    \/ Collide
    \/ CullDead
    \/ DrawFrame

LiveSpec == LiveInit /\ [][LiveNext]_vars /\ WF_vars(LiveNext)

\* The main loop entered with a given arena: the concrete scenario of the
\* specification's testable properties (two bodies of radius 75 at (100,100) and
\* (200,100), velocities (2,0) and (-2,0)) and variations of it.
Scenario(x2, v2) ==
    << Particle(1, Px(100), Px(100), <<Px(2), 0>>), Particle(2, Px(x2), Px(100), <<v2, 0>>) >>

ScenarioStarts == { Scenario(x2, v2) : x2 \in {200, 230, 260}, v2 \in {-Px(2), -Px(1)} }

ScenarioInit ==
    /\ pc = "poll"
    /\ total_images = 4
    /\ GRID_SIZE = Diameter(4)
    /\ particles \in ScenarioStarts
    /\ start = particles
    /\ img = 4
    /\ attempts = 0
    /\ running = TRUE
    /\ ticks = 0
    /\ resolved = <<>>
    /\ frame = NoFrame

ScenarioNext ==
    \/ PollEvents({FALSE}, TRUE)
    \/ MoveAll
    \/ Collide
    \/ CullDead
    \/ DrawFrame

ScenarioSpec == ScenarioInit /\ [][ScenarioNext]_vars /\ WF_vars(ScenarioNext)

\* The main loop entered after a spawn of so many images that int(radius * 2) is 0:
\* with more than 4 * BASE_SIZE^2 images the radius is below half a pixel.  The
\* bodies are on a lattice of one pixel pitch (the pitch is not less than 2 * radius,
\* so no such candidate is rejected).  Arenas of one to MaxLattice bodies are explored:
\* the placed bodies of a spawn in which every candidate of the other images fell on
\* a placed body (the exhaustion that Spec reaches with its repeated candidates); the
\* division by GRID_SIZE does not depend on how many bodies there are.  The arenas of
\* LiveStarts for one and two images are explored with them.
TooManyImages == 4 * BASE_SIZE * BASE_SIZE + 1

LatticeCols == WIDTH - 1

MaxLattice == 3

Lattice(n, v) ==
    [i \in 1..n |-> Particle(i, Px(1 + ((i - 1) % LatticeCols)),
                              Px(1 + ((i - 1) \div LatticeCols)), v)]

ConfigStarts(n) ==
    IF n = TooManyImages
    THEN { ps \in { Lattice(k, v) : k \in 1..MaxLattice, v \in Velocities } :
             /\ ~WithinMinDist(Px(1), 0, n)
             /\ \A i \in 1..Len(ps) : InSpawnRange(<<ps[i].x, ps[i].y>>, n) }
    ELSE LiveStarts(n)

ConfigInit ==
    /\ pc = "poll"
    /\ total_images \in {1, 2, TooManyImages}
    /\ GRID_SIZE = Diameter(total_images)
    /\ particles \in ConfigStarts(total_images)
    /\ start = particles
    /\ img = total_images
    /\ attempts = 0
    /\ running = TRUE
    /\ ticks = 0
    /\ resolved = <<>>
    /\ frame = NoFrame

ConfigNext ==
    \/ PollEvents(QuitInputs, TRUE)
    \/ MoveAll
    \/ Collide
    \/ CullDead
    \/ DrawFrame

ConfigSpec == ConfigInit /\ [][ConfigNext]_vars

\* ---------------- properties ----------------
\* the unordered pairs of the list that a test of all pairs finds colliding
BruteForcePairs(ps, n) ==
    { PairKey(ps[i], ps[j]) : i, j \in { k \in 1..Len(ps) : TRUE } } \cap
    { PairKey(ps[c[1]], ps[c[2]]) :
        c \in { d \in (1..Len(ps)) \X (1..Len(ps)) :
                  d[1] < d[2] /\ Colliding(ps[d[1]], ps[d[2]], n) } }

\* the two cells are the same or touch, in the 3x3 sense
CellsAdjacent(c1, c2) == Abs(c1[1] - c2[1]) <= 1 /\ Abs(c1[2] - c2[2]) <= 1

\* how often the nested loops of check_collisions come to the two list positions
Visits(ps, g, i, j) ==
    LET order == VisitOrder(build_spatial_grid(ps, g), 1)
    IN Cardinality({ k \in 1..Len(order) : order[k] = <<i, j>> \/ order[k] = <<j, i>> })

\* C1 (as claimed): for any body count >= 1 and any positions and velocities the main
\* loop reaches the terminated state after finitely many ticks, with no quit signal.
C1_Terminates == <>(pc = "done")

\* C1 (amended): a loop that starts with one body terminates (at the end of its first
\* tick), and without a quit signal the loop terminates only with at most one body left
\* by a cull; bodies that never collide keep it running.
C1_Amended ==
    /\ (pc = "poll" /\ ticks = 0 /\ Len(particles) <= 1) ~> (pc = "done" /\ ticks = 1)
    /\ [](pc = "done" => Len(particles) <= 1)

C1_Witness == pc = "done" /\ Len(start) = 1 /\ ticks = 1 /\ Len(particles) = 1

\* C2 (as claimed): with GRID_SIZE = int(2 * radius), two bodies within colliding
\* distance at collision time are in the same cell or in adjacent cells.
C2_AdjacentCells ==
    pc = "collide" =>
        \A i, j \in 1..Len(particles) :
            Colliding(particles[i], particles[j], total_images)
                => CellsAdjacent(CellOf(particles[i], GRID_SIZE), CellOf(particles[j], GRID_SIZE))

\* C3 (as claimed): the pairs check_collisions resolves in a tick are exactly the pairs
\* a test of all pairs finds within colliding distance at the post-move positions.
C3_MatchesBruteForce ==
    pc = "cull" =>
        { resolved[k] : k \in 1..Len(resolved) } = BruteForcePairs(particles, total_images)

\* C4: within one tick no unordered pair is resolved twice, also when the loops come to
\* the pair from several occupied cells.
C4_PairOnce ==
    \A a, b \in 1..Len(resolved) : a # b => resolved[a] # resolved[b]

C4_Witness ==
    /\ pc = "cull"
    /\ \E i, j \in 1..Len(particles) :
          /\ i < j
          /\ Visits(particles, GRID_SIZE, i, j) >= 2
          /\ \E k \in 1..Len(resolved) : resolved[k] = PairKey(particles[i], particles[j])

\* the number of resolved pairs of one pass that the body takes part in
Hits(id, res) == Cardinality({ k \in 1..Len(res) : res[k][1] = id \/ res[k][2] = id })

Max0(a) == IF a < 0 THEN 0 ELSE a

C5_PowerStep ==
    /\ \A j \in 1..Len(particles') : particles'[j].power \in 0..POWER_PER_OBJECT
    /\ \A i \in 1..Len(particles), j \in 1..Len(particles') :
          particles[i].id = particles'[j].id =>
              /\ particles'[j].power <= particles[i].power
              /\ pc # "collide" => particles'[j].power = particles[i].power
    /\ pc = "collide" =>
          /\ Len(particles') = Len(particles)
          /\ \A i \in 1..Len(particles) :
                /\ particles'[i].id = particles[i].id
                /\ particles'[i].power
                      = Max0(particles[i].power - Hits(particles[i].id, resolved'))

\* C5: every body's power stays in 0..POWER_PER_OBJECT and never increases; the
\* collision pass of a tick leaves it at max(0, power before - collisions of the body
\* in that tick), and no other step of the tick changes it.
C5_Power == [][C5_PowerStep]_vars

C5_Witness ==
    /\ pc = "cull"
    /\ \E i \in 1..Len(particles) :
          Hits(particles[i].id, resolved) >= 2 /\ particles[i].power = 0

\* the spawn loop has just ended
Spawned == pc = "poll" /\ ticks = 0

C6_LastAttemptStep ==
    (pc = "spawn" /\ attempts = MAX_ATTEMPTS - 1) =>
        /\ img' = img + 1
        /\ \/ particles' = particles
           \/ /\ Len(particles') = Len(particles) + 1
              /\ ~is_overlapping(particles, particles'[Len(particles')].x,
                                 particles'[Len(particles')].y, total_images)

InBox(p, n) ==
    /\ GeRadius(p.x, n) /\ GeRadius(Px(WIDTH) - p.x, n)
    /\ GeRadius(p.y, n) /\ GeRadius(Px(HEIGHT) - p.y, n)

\* C7: after spawning and before the first tick every two bodies are at least
\* 2 * radius apart and every centre is in the box.
C7_SpawnSafe ==
    Spawned =>
        /\ \A i, j \in 1..Len(particles) :
              i # j => ~WithinMinDist(particles[i].x - particles[j].x,
                                      particles[i].y - particles[j].y, total_images)
        /\ \A i \in 1..Len(particles) : InBox(particles[i], total_images)

C7_Witness == Spawned /\ Len(particles) >= 2

\* one tick's velocity magnitude, rounded up
Speed(p) ==
    LET sq == p.vx * p.vx + p.vy * p.vy
    IN IF ISqrt(sq) * ISqrt(sq) = sq THEN ISqrt(sq) ELSE ISqrt(sq) + 1

\* C8 (as claimed): after the bounce step no body is outside the box by more than one
\* tick's velocity magnitude on either axis, also when collisions swap velocities of
\* bodies at or beyond a wall.
C8_Overshoot ==
    pc = "collide" =>
        \A i \in 1..Len(particles) :
            LET p == particles[i]
                m == Speed(p)
            IN /\ GeRadius(p.x + m, total_images)
               /\ GeRadius(Px(WIDTH) - p.x + m, total_images)
               /\ GeRadius(p.y + m, total_images)
               /\ GeRadius(Px(HEIGHT) - p.y + m, total_images)

\* C9 (as claimed): after each tick's bounce step every body is within the box.
C9_Inside == pc = "collide" => \A i \in 1..Len(particles) : InBox(particles[i], total_images)

C9_MoveStep ==
    pc = "move" =>
        \A i \in 1..Len(particles) :
            LET p == particles[i]
                q == particles'[i]
            IN /\ q.x = p.x + p.vx /\ q.y = p.y + p.vy
               /\ q.vx = IF LeRadius(q.x, total_images) \/ LeRadius(Px(WIDTH) - q.x, total_images)
                         THEN -p.vx ELSE p.vx
               /\ q.vy = IF LeRadius(q.y, total_images) \/ LeRadius(Px(HEIGHT) - q.y, total_images)
                         THEN -p.vy ELSE p.vy
               /\ InBox(p, total_images) =>
                     /\ GeRadius(q.x + Abs(p.vx), total_images)
                     /\ GeRadius(Px(WIDTH) - q.x + Abs(p.vx), total_images)
                     /\ GeRadius(q.y + Abs(p.vy), total_images)
                     /\ GeRadius(Px(HEIGHT) - q.y + Abs(p.vy), total_images)

\* C9 (amended): the bounce step does not correct positions.  The step adds the
\* velocity to the position; on an axis where the new position is at or beyond a wall
\* the velocity component is inverted, elsewhere it is kept; a body that was within the
\* box before the step is outside it by at most |vx| (|vy|) after it.
C9_Amended == [][C9_MoveStep]_vars

C9_Witness == pc = "collide" /\ \E i \in 1..Len(particles) : ~InBox(particles[i], total_images)

TheScenario == start = Scenario(200, -Px(2))

C10_Ticks ==
    TheScenario =>
        /\ ticks <= POWER_PER_OBJECT
        /\ (pc = "cull" /\ ticks = 1) =>
              /\ resolved = << <<1, 2>> >>
              /\ particles[1].vx = -Px(2) /\ particles[1].vy = 0
              /\ particles[2].vx = Px(2) /\ particles[2].vy = 0
              /\ particles[1].power = 6 /\ particles[2].power = 6
        /\ pc = "cull" =>
              /\ Len(resolved) = 1
              /\ Len(particles) = 2
              /\ \A i \in 1..2 : particles[i].power = POWER_PER_OBJECT - ticks
        /\ pc \in {"draw", "poll"} => Len(particles) = (IF ticks = POWER_PER_OBJECT THEN 0 ELSE 2)
        /\ pc = "done" => (ticks = POWER_PER_OBJECT /\ particles = <<>> /\ frame.alive = 0)

\* C10: two bodies of radius 75 and power 7 at (100,100) and (200,100) with velocities
\* (2,0) and (-2,0).  The first tick resolves exactly one collision, after which the
\* velocities are (-2,0) and (2,0) and both powers 6; six further collisions, one per
\* tick, bring both powers to 0 in tick 7, both bodies are culled in that tick and the
\* run terminates with no body left.
C10_Scenario == [](C10_Ticks) /\ <>(TheScenario => pc = "done")

C10_Witness == TheScenario /\ pc = "done" /\ ticks = 7 /\ Len(particles) = 0

C11_Tick ==
    Len(start) = 1 =>
        /\ ticks <= 1
        /\ (pc \in {"poll", "move", "collide", "cull", "draw", "done"}) =>
              /\ Len(particles) = 1
              /\ particles[1].id = start[1].id
              /\ particles[1].power = POWER_PER_OBJECT
        /\ pc = "draw" => ~running
        /\ pc = "done" => (ticks = 1 /\ frame.alive = 1)

\* C11: a run that starts with exactly one body terminates at the end of its first
\* tick, and the body is still in the list with power POWER_PER_OBJECT.
C11_SingleBody == [](C11_Tick) /\ ((pc = "poll" /\ Len(start) = 1) ~> (pc = "done"))

C11_Witness ==
    /\ pc = "done" /\ Len(start) = 1 /\ frame.alive = 1
    /\ particles[1].power = POWER_PER_OBJECT /\ particles[1].x # start[1].x

\* the script is inside the main loop
InLoop == pc \in {"poll", "move", "collide", "cull", "draw"}

C12_Step ==
    /\ pc = "poll" => (running /\ pc' = "move" /\ particles' = particles)
    /\ pc = "move" => (pc' = "collide" /\ running' = running)
    /\ pc = "collide" => (pc' = "cull" /\ running' = running)
    /\ pc = "cull" => (pc' = "draw" /\ (running' <=> (running /\ Len(particles') > 1)))
    /\ pc = "draw" => (running' = running /\ pc' = (IF running THEN "poll" ELSE "done"))
    /\ (InLoop /\ pc # "poll" /\ ~running) => ~running'
    /\ pc # "done"

\* C12: a tick starts only while running; a quit seen by the poll does not cut the
\* tick short (move, collision pass, cull and draw follow); the loop is left at the end
\* of a tick exactly when a quit was seen in it or its cull left at most one body; after
\* that nothing executes and running never becomes true again.
C12_RunState == [][C12_Step]_vars

C12_Witness ==
    /\ pc = "done" /\ Len(particles) >= 2 /\ Len(particles) = Len(start)
    /\ frame.alive = Len(particles)
    /\ \E i \in 1..Len(particles) : particles[i].x # start[i].x

\* C13 (as claimed): with no image, or with a cell size int(2 * radius) <= 0, the run
\* fails before any move, collision pass or cull executes.
C13_FailsBeforeTick ==
    (pc # "load" /\ (total_images = 0 \/ GRID_SIZE <= 0)) =>
        (pc \notin {"collide", "cull", "draw", "done"} /\ particles = start)

Ids(ps) == { ps[i].id : i \in 1..Len(ps) }

C14_Step == InLoop => (Ids(particles') \subseteq Ids(particles) /\ Len(particles') <= Len(particles))

\* C14: after the cull of a tick every body of the list has power >= 1, and inside
\* the main loop the set of bodies only shrinks: no removed body comes back and the
\* count never grows.
C14_CullFinal ==
    /\ [][C14_Step]_vars
    /\ [](pc \in {"draw", "poll", "done"} => \A i \in 1..Len(particles) : particles[i].power >= 1)

C14_Witness == pc = "draw" /\ Len(particles) >= 1 /\ Len(particles) < Len(start)

\* the list position of the body with the given id
IndexOf(ps, id) == CHOOSE i \in 1..Len(ps) : ps[i].id = id

\* what C15 says one resolved pair does: velocities exchanged, each power one lower
\* but not below 0
Exchange(ps, pair) ==
    LET i == IndexOf(ps, pair[1])
        j == IndexOf(ps, pair[2])
    IN [ps EXCEPT ![i] = [ps[i] EXCEPT !.vx = ps[j].vx, !.vy = ps[j].vy,
                                       !.power = Max0(ps[i].power - 1)],
                  ![j] = [ps[j] EXCEPT !.vx = ps[i].vx, !.vy = ps[i].vy,
                                       !.power = Max0(ps[j].power - 1)]]

RECURSIVE Replay(_, _, _)
Replay(ps, res, k) == IF k > Len(res) THEN ps ELSE Replay(Exchange(ps, res[k]), res, k + 1)

\* the pairs the loops come to (cells the same or adjacent) that are within colliding distance
ReachedColliding(ps, g, n) ==
    { PairKey(ps[c[1]], ps[c[2]]) :
        c \in { d \in (1..Len(ps)) \X (1..Len(ps)) :
                  /\ d[1] < d[2]
                  /\ Colliding(ps[d[1]], ps[d[2]], n)
                  /\ CellsAdjacent(CellOf(ps[d[1]], g), CellOf(ps[d[2]], g)) } }

C15_Step ==
    /\ pc = "collide" =>
          /\ Len(particles') = Len(particles)
          /\ { resolved'[k] : k \in 1..Len(resolved') }
                = ReachedColliding(particles, GRID_SIZE, total_images)
          /\ particles' = Replay(particles, resolved', 1)
    /\ pc = "cull" => Ids(particles') = { particles[i].id : i \in { k \in 1..Len(particles) :
                                                                    particles[k].power > 0 } }

\* C15: a body whose power reaches 0 in a collision pass stays in the list for the
\* rest of the pass: every pair the pass comes to that is within colliding distance is
\* resolved whatever the powers, a resolution exchanges the velocities and lowers each
\* power by one but not below 0, and only the cull after the pass removes the body.
C15_ZeroStays == [][C15_Step]_vars

C15_Witness ==
    /\ pc = "cull" /\ ticks >= 2
    /\ \E i \in 1..Len(particles), k \in 1..Len(frame.bodies) :
          /\ frame.bodies[k].id = particles[i].id
          /\ frame.bodies[k].power = 1
          /\ particles[i].power = 0
          /\ Hits(particles[i].id, resolved) >= 2

RECURSIVE TotalPower(_, _)
TotalPower(ps, k) == IF k > Len(ps) THEN 0 ELSE ps[k].power + TotalPower(ps, k + 1)

C16_Step ==
    /\ (pc = "collide" /\ resolved' # <<>>) =>
          TotalPower(particles', 1) + 2 <= TotalPower(particles, 1)
    /\ (InLoop /\ pc # "collide") => TotalPower(particles', 1) = TotalPower(particles, 1)

\* C16: a tick that resolves at least one collision lowers the total power of the
\* bodies by at least 2 (the collision pass does; poll, move, cull and draw leave the
\* total as it is).
C16_TotalDrops == [][C16_Step]_vars

C16_Witness ==
    /\ pc = "cull" /\ ticks >= 2 /\ Len(resolved) >= 2
    /\ TotalPower(frame.bodies, 1) = TotalPower(particles, 1) + 3

\* C17: the frame drawn in a tick shows exactly the bodies of the list after the cull,
\* each with power in 1..POWER_PER_OBJECT, and the counter shows their number.
C17_SnapshotAfterCull ==
    (pc \in {"poll", "done"} /\ ticks >= 1) =>
        /\ Len(frame.bodies) = Len(particles)
        /\ frame.alive = Len(frame.bodies)
        /\ \A i \in 1..Len(frame.bodies) :
              /\ frame.bodies[i].id = particles[i].id
              /\ frame.bodies[i].x = particles[i].x /\ frame.bodies[i].y = particles[i].y
              /\ frame.bodies[i].power = particles[i].power
              /\ frame.bodies[i].power \in 1..POWER_PER_OBJECT

C17_Witness == pc = "poll" /\ ticks >= 1 /\ frame.alive >= 2 /\ frame.alive < Len(start)

\* how many bodies of the list have velocity v
VelCount(ps, v) == Cardinality({ i \in 1..Len(ps) : <<ps[i].vx, ps[i].vy>> = v })

C18_Step ==
    pc = "collide" =>
        /\ Len(particles') = Len(particles)
        /\ \A i \in 1..Len(particles) :
              /\ particles'[i].id = particles[i].id
              /\ particles'[i].x = particles[i].x /\ particles'[i].y = particles[i].y
              /\ VelCount(particles', <<particles[i].vx, particles[i].vy>>)
                    = VelCount(particles, <<particles[i].vx, particles[i].vy>>)
              /\ VelCount(particles, <<particles'[i].vx, particles'[i].vy>>)
                    = VelCount(particles', <<particles'[i].vx, particles'[i].vy>>)

\* C18: the collision pass changes only velocities and powers: every body keeps its
\* position (the radius is one global value), and the velocity vectors after the pass
\* are the vectors before it, each as many times as before.
C18_PassFrame == [][C18_Step]_vars

C18_Witness ==
    /\ pc = "cull" /\ Len(particles) >= 3 /\ Len(resolved) >= 2
    /\ \E k \in 1..Len(resolved) :
          LET a == particles[IndexOf(particles, resolved[k][1])]
              b == particles[IndexOf(particles, resolved[k][2])]
          IN <<a.vx, a.vy>> # <<b.vx, b.vy>>

\* C19: in every reachable state every body has |vx| <= 2 and |vy| <= 2.
C19_SpeedBound ==
    \A i \in 1..Len(particles) :
        Abs(particles[i].vx) <= Px(2) /\ Abs(particles[i].vy) <= Px(2)

C19_Witness ==
    /\ pc = "cull" /\ resolved # <<>>
    /\ \E i \in 1..Len(particles) :
          /\ Hits(particles[i].id, resolved) >= 1
          /\ Abs(particles[i].vx) = Px(2) /\ Abs(particles[i].vy) = Px(2)
          /\ ~InBox(particles[i], total_images)

====
